---- MODULE Spec2Model ----
(***************************************************************************)
(* Model of scripts/process_fire_data.py: the batch pipeline that reads    *)
(* VIIRS fire points, joins them to the Punjab and Haryana district        *)
(* polygons, groups the matches by (ACQ_DATE, state, dtname) and writes    *)
(* data/fire_counts.json and data/fire_counts_summary.json.                *)
(*                                                                         *)
(* Geometry is abstracted to cells: a point lies in one cell, a polygon    *)
(* is a set of cells, and "within" is membership.  District names are the  *)
(* integers 1..NDist in alphabetical order; dates are the integers         *)
(* 1..NDates in calendar order.  State labels compare alphabetically,      *)
(* "Haryana" < "Punjab" (StateOrd).  The last_updated timestamp of the     *)
(* two documents is left out.                                              *)
(***************************************************************************)
EXTENDS Integers, Sequences, FiniteSets

\* ---------------------------------------------------------------- bounds
\* districts per state (the real shapefiles hold 22 and 23)
NDist == 11
\* distinct acquisition dates (the feed covers 7 days)
NDates == 2
\* points in an exhaustively enumerated point file
MaxPoints == 3

\* ---------------------------------------------------------- configuration
DISTRICT_COLUMN == "dtname"
OUTPUT_JSON == "data/fire_counts.json"
SUMMARY_JSON == "data/fire_counts_summary.json"
\* .head(20) of create_summary_output
TopN == 20

States == {"Haryana", "Punjab"}
StateOrd(s) == IF s = "Haryana" THEN 1 ELSE 2

NoCRS == "none"
PointCRSs == {NoCRS, "EPSG:4326", "EPSG:32643"}
DistrictCRSs == {NoCRS, "EPSG:4326"}

\* attribute tables a district shapefile may come with
ColumnSets == {{"dtname", "geometry"}, {"DISTRICT", "geometry"},
               {"NAME", "dist_name", "geometry"}}

\* ------------------------------------------------------------- geometry
Outside == <<"outside", 0>>
\* a cell on the border of Punjab district 1 and Haryana district 1
Border == <<"border", 0>>

\* rows of one district shapefile; with overlap the Haryana polygon of
\* district 1 also covers the border cell that Punjab's district 1 covers
ShapefileRows(st, overlap) ==
    [k \in 1..NDist |->
        [dtname |-> k,
         geometry |-> {<<st, k>>} \cup
                      (IF k = 1 /\ (st = "Punjab" \/ overlap)
                       THEN {Border} ELSE {})]]

\* ------------------------------------------------------- sequence helpers
RECURSIVE SumCounts(_)
SumCounts(rows) ==
    IF rows = <<>> THEN 0
    ELSE Head(rows).fire_count + SumCounts(Tail(rows))

HeadN(rows, n) == IF Len(rows) <= n THEN rows ELSE SubSeq(rows, 1, n)

\* ------------------------------------------------------ input point files
\* cells used by the exhaustively enumerated point files: districts 1 and 2
\* of each state, the border cell and a cell outside every polygon
SmallCellAt(i) ==
    IF i <= 2 THEN <<"Haryana", i>>
    ELSE IF i <= 4 THEN <<"Punjab", i - 2>>
    ELSE IF i = 5 THEN Border
    ELSE Outside

NSmallKinds == 6 * NDates

SmallPointAt(j) ==
    [ACQ_DATE |-> ((j - 1) % NDates) + 1,
     geometry |-> SmallCellAt(((j - 1) \div NDates) + 1)]

\* every point file of at most MaxPoints points over the small cells
\* (file order is immaterial to the join and the grouping: one order each)
SmallPointFiles ==
    UNION {{[i \in 1..n |-> SmallPointAt(f[i])] :
              f \in {g \in [1..n -> 1..NSmallKinds] :
                        \A i \in 1..n : i < n => g[i] <= g[i + 1]}} :
           n \in 0..MaxPoints}

\* wide point files: fires in the first n (state, district) pairs, so that
\* more pairs than the top list holds are affected; pattern p sets how many
\* fires pair i has, which gives runs of equal totals across the cut-off
PairAt(i) ==
    IF i <= NDist THEN <<"Haryana", i>> ELSE <<"Punjab", i - NDist>>

WideCount(p, i) ==
    IF p = 1 THEN 1
    ELSE IF p = 2 THEN 1 + (i % 3)
    ELSE 1 + ((2 * NDist - i) % 2)

RECURSIVE WidePoints(_, _, _)
WidePoints(p, i, c) ==
    IF i = 0 THEN <<>>
    ELSE IF c = 0 THEN WidePoints(p, i - 1, WideCount(p, i - 1))
    ELSE Append(WidePoints(p, i, c - 1),
                [ACQ_DATE |-> ((i + c) % NDates) + 1, geometry |-> PairAt(i)])

WidePointFiles ==
    {WidePoints(p, n, WideCount(p, n)) :
        p \in 1..3, n \in (2 * NDist - 3)..(2 * NDist)}

PointFiles == SmallPointFiles \cup WidePointFiles

\* ------------------------------------------------- load_district_shapefiles
\* variant: tests for the geometry column instead of the district column
HasDistrictColumn_m(columns) == "geometry" \in columns

HasDistrictColumn(columns) == DISTRICT_COLUMN \in columns

\* punjab_districts['state'] = 'Punjab' ... pd.concat([punjab, haryana])
TagState(rows, st) ==
    [k \in DOMAIN rows |->
        [state |-> st, dtname |-> rows[k].dtname, geometry |-> rows[k].geometry]]

ConcatDistricts(punjab_districts, haryana_districts) ==
    TagState(punjab_districts, "Punjab") \o TagState(haryana_districts, "Haryana")

\* ----------------------------------------------------- process_fire_counts
\* gpd.sjoin(points, districts, how='inner', predicate='within'): one row
\* for every (point, polygon) pair with the point within the polygon
MatchesOf(p, districts) ==
    LET hit == SelectSeq(districts, LAMBDA d : p.geometry \in d.geometry)
    IN  [i \in 1..Len(hit) |->
            [ACQ_DATE |-> p.ACQ_DATE, state |-> hit[i].state,
             dtname |-> hit[i].dtname]]

RECURSIVE sjoin(_, _)
sjoin(pts, districts) ==
    IF pts = <<>> THEN <<>>
    ELSE MatchesOf(Head(pts), districts) \o sjoin(Tail(pts), districts)

\* groupby(['ACQ_DATE', 'state', DISTRICT_COLUMN]): observed keys, sorted
GroupKeyAt(i) ==
    LET r == (i - 1) % (2 * NDist)
    IN  [ACQ_DATE |-> ((i - 1) \div (2 * NDist)) + 1,
         state |-> IF r < NDist THEN "Haryana" ELSE "Punjab",
         dtname |-> (r % NDist) + 1]

\* .size().reset_index(name='fire_count')
GroupSize(pd) ==
    LET all == [i \in 1..(2 * NDist * NDates) |->
                  LET key == GroupKeyAt(i)
                  IN  [ACQ_DATE |-> key.ACQ_DATE, state |-> key.state,
                       dtname |-> key.dtname,
                       fire_count |-> Cardinality({j \in DOMAIN pd : pd[j] = key})]]
    IN  SelectSeq(all, LAMBDA row : row.fire_count > 0)

\* variant: ascending=[True, True, True]
RowBefore_m(a, b) ==
    \/ a.ACQ_DATE < b.ACQ_DATE
    \/ /\ a.ACQ_DATE = b.ACQ_DATE
       /\ \/ StateOrd(a.state) < StateOrd(b.state)
          \/ /\ a.state = b.state
             /\ a.fire_count < b.fire_count

\* sort_values(['ACQ_DATE', 'state', 'fire_count'], ascending=[True, True, False])
RowBefore(a, b) ==
    \/ a.ACQ_DATE < b.ACQ_DATE
    \/ /\ a.ACQ_DATE = b.ACQ_DATE
       /\ \/ StateOrd(a.state) < StateOrd(b.state)
          \/ /\ a.state = b.state
             /\ a.fire_count > b.fire_count

RECURSIVE InsertRow(_, _)
InsertRow(sorted, x) ==
    IF sorted = <<>> THEN <<x>>
    ELSE IF RowBefore(x, Head(sorted)) THEN <<x>> \o sorted
    ELSE <<Head(sorted)>> \o InsertRow(Tail(sorted), x)

\* the multi-key sort is a lexsort, which is stable
RECURSIVE SortValues(_)
SortValues(rows) ==
    IF rows = <<>> THEN <<>>
    ELSE InsertRow(SortValues(SubSeq(rows, 1, Len(rows) - 1)), rows[Len(rows)])

\* pd.DataFrame(columns=[...]) returned when the point file is empty
EmptyCounts == <<>>

\* ------------------------------------------------------ create_json_output
\* sorted(district_counts['ACQ_DATE'].unique())
UniqueDates(district_counts) ==
    SelectSeq([d \in 1..NDates |-> d],
              LAMBDA d : \E i \in DOMAIN district_counts :
                            district_counts[i].ACQ_DATE = d)

StateData(date_data, st) == SelectSeq(date_data, LAMBDA row : row.state = st)

DistrictList(data) ==
    [i \in DOMAIN data |->
        [district |-> data[i].dtname, fire_count |-> data[i].fire_count]]

\* variant: counts the rows instead of adding their fire_count
RegionTotal_m(data) == Len(data)

RegionTotal(data) == SumCounts(data)

CombinedTotal(punjab_data, haryana_data) ==
    SumCounts(punjab_data) + SumCounts(haryana_data)

DailyEntry(district_counts, date) ==
    LET date_data == SelectSeq(district_counts, LAMBDA row : row.ACQ_DATE = date)
        punjab_data == StateData(date_data, "Punjab")
        haryana_data == StateData(date_data, "Haryana")
    IN  [date |-> date,
         punjab |-> [districts |-> DistrictList(punjab_data),
                     total |-> RegionTotal(punjab_data)],
         haryana |-> [districts |-> DistrictList(haryana_data),
                      total |-> RegionTotal(haryana_data)],
         combined_total |-> CombinedTotal(punjab_data, haryana_data)]

EmptyDaily ==
    [kind |-> "daily", data_source |-> "NASA FIRMS VIIRS (NOAA-20)",
     time_period |-> "7 days", daily_data |-> <<>>]

create_json_output(district_counts) ==
    IF Len(district_counts) = 0 THEN EmptyDaily
    ELSE LET unique_dates == UniqueDates(district_counts)
         IN  [kind |-> "daily", data_source |-> "NASA FIRMS VIIRS (NOAA-20)",
              time_period |-> "7 days",
              daily_data |-> [i \in DOMAIN unique_dates |->
                                 DailyEntry(district_counts, unique_dates[i])]]

\* --------------------------------------------------- create_summary_output
NoDate == 0

EmptySummary ==
    [kind |-> "summary", total_fire_count |-> 0,
     date_range |-> [start |-> NoDate, end |-> NoDate],
     top_districts |-> <<>>,
     state_totals |-> [punjab |-> 0, haryana |-> 0]]

\* variant: counts the rows instead of adding their fire_count
TotalFireCount_m(district_counts) == Len(district_counts)

TotalFireCount(district_counts) == SumCounts(district_counts)

\* groupby(['state', DISTRICT_COLUMN])['fire_count'].sum().reset_index():
\* one row per observed pair, in ascending (state, district) order
PairTotals(district_counts) ==
    LET all == [i \in 1..(2 * NDist) |->
                  LET pr == PairAt(i)
                  IN  [state |-> pr[1], dtname |-> pr[2],
                       fire_count |->
                          SumCounts(SelectSeq(district_counts,
                              LAMBDA row : row.state = pr[1] /\ row.dtname = pr[2])),
                       seen |-> \E j \in DOMAIN district_counts :
                                   /\ district_counts[j].state = pr[1]
                                   /\ district_counts[j].dtname = pr[2]]]
        obs == SelectSeq(all, LAMBDA row : row.seen)
    IN  [i \in DOMAIN obs |->
            [state |-> obs[i].state, dtname |-> obs[i].dtname,
             fire_count |-> obs[i].fire_count]]

\* sort_values('fire_count', ascending=False) sorts one column with the
\* default kind, quicksort, which is not stable: rows of equal fire_count
\* may come out in any order.  Modelled as a stable descending sort applied
\* after one of these rearrangements of the rows.
TieOrders == {"keep", "reverse", "rotate"}

RECURSIVE Reverse(_)
Reverse(rows) ==
    IF rows = <<>> THEN <<>> ELSE Append(Reverse(Tail(rows)), Head(rows))

Rearranged(rows, tie) ==
    IF tie = "keep" \/ rows = <<>> THEN rows
    ELSE IF tie = "reverse" THEN Reverse(rows)
    ELSE Append(Tail(rows), Head(rows))

\* variant: ascending=True
CountBefore_m(a, b) == a.fire_count < b.fire_count

CountBefore(a, b) == a.fire_count > b.fire_count

RECURSIVE InsertByCount(_, _)
InsertByCount(sorted, x) ==
    IF sorted = <<>> THEN <<x>>
    ELSE IF CountBefore(x, Head(sorted)) THEN <<x>> \o sorted
    ELSE <<Head(sorted)>> \o InsertByCount(Tail(sorted), x)

RECURSIVE StableByCount(_)
StableByCount(rows) ==
    IF rows = <<>> THEN <<>>
    ELSE InsertByCount(StableByCount(SubSeq(rows, 1, Len(rows) - 1)),
                       rows[Len(rows)])

SortByCountDesc(rows, tie) == StableByCount(Rearranged(rows, tie))

TopDistricts(district_counts, tie) ==
    LET top == HeadN(SortByCountDesc(PairTotals(district_counts), tie), TopN)
    IN  [i \in DOMAIN top |->
            [state |-> top[i].state, district |-> top[i].dtname,
             total_fires |-> top[i].fire_count]]

\* state_totals.get('Punjab', 0)
StateTotal(district_counts, st) ==
    SumCounts(SelectSeq(district_counts, LAMBDA row : row.state = st))

create_summary_output(district_counts, tie) ==
    IF Len(district_counts) = 0 THEN EmptySummary
    ELSE LET unique_dates == UniqueDates(district_counts)
         IN  [kind |-> "summary",
              total_fire_count |-> TotalFireCount(district_counts),
              date_range |-> [start |-> unique_dates[1],
                              end |-> unique_dates[Len(unique_dates)]],
              top_districts |-> TopDistricts(district_counts, tie),
              state_totals |->
                  [punjab |-> StateTotal(district_counts, "Punjab"),
                   haryana |-> StateTotal(district_counts, "Haryana")]]

\* ------------------------------------------------------------------- state
VARIABLES
    pc,               \* the step main() is about to run, "done" after exit
    exit_status,      \* process exit status once pc = "done" (-1 before)
    error,            \* which handler reported the failure, "none" if none
    diag_source,      \* shapefile named by the missing-column message
    diag_columns,     \* "Available columns" printed by that message
    warnings,         \* warnings printed so far
    stages_run,       \* the steps that have started
    punjab_columns,   \* columns of the Punjab shapefile once read
    haryana_columns,  \* columns of the Haryana shapefile once read
    districts,        \* all_districts
    districts_crs,    \* all_districts.crs
    points,           \* the fire points as read
    points_crs,       \* their CRS as read
    points_districts, \* result of the spatial join
    district_counts,  \* the grouped-count table
    daily_output,     \* result of create_json_output
    summary_output,   \* result of create_summary_output
    file_daily,       \* content of data/fire_counts.json
    file_summary      \* content of data/fire_counts_summary.json

vars == <<pc, exit_status, error, diag_source, diag_columns, warnings,
          stages_run, punjab_columns, haryana_columns, districts,
          districts_crs, points, points_crs, points_districts,
          district_counts, daily_output, summary_output, file_daily,
          file_summary>>

NoDoc == [kind |-> "none"]
\* what the file held before this run (possibly nothing)
Previous == [kind |-> "previous"]
\* opened for writing and truncated, json.dump did not complete
Partial == [kind |-> "partial"]

Init ==
    /\ pc = "makedirs"
    /\ exit_status = -1
    /\ error = "none"
    /\ diag_source = "none"
    /\ diag_columns = {}
    /\ warnings = {}
    /\ stages_run = {}
    /\ punjab_columns = {}
    /\ haryana_columns = {}
    /\ districts = <<>>
    /\ districts_crs = NoCRS
    /\ points = <<>>
    /\ points_crs = NoCRS
    /\ points_districts = <<>>
    /\ district_counts = <<>>
    /\ daily_output = NoDoc
    /\ summary_output = NoDoc
    /\ file_daily = Previous
    /\ file_summary = Previous

\* sys.exit(1), from a step's own handler or from main's except clause
Exit1(kind) ==
    /\ pc' = "done"
    /\ exit_status' = 1
    /\ error' = kind

Goto(next) ==
    /\ pc' = next
    /\ UNCHANGED <<exit_status, error>>

Started(stages) == stages_run' = stages_run \cup stages

\* ------------------------------------------------------------------- main
\* os.makedirs('data', exist_ok=True)
MakeDirs ==
    /\ pc = "makedirs"
    /\ Started({"makedirs"})
    /\ \E ok \in BOOLEAN : IF ok THEN Goto("download") ELSE Exit1("fatal")
    /\ UNCHANGED <<diag_source, diag_columns, warnings, punjab_columns,
                   haryana_columns, districts, districts_crs, points,
                   points_crs, points_districts, district_counts,
                   daily_output, summary_output, file_daily, file_summary>>

\* download_and_extract_fire_data
Download ==
    /\ pc = "download"
    /\ Started({"download"})
    /\ \E ok \in BOOLEAN : IF ok THEN Goto("load") ELSE Exit1("download")
    /\ UNCHANGED <<diag_source, diag_columns, warnings, punjab_columns,
                   haryana_columns, districts, districts_crs, points,
                   points_crs, points_districts, district_counts,
                   daily_output, summary_output, file_daily, file_summary>>

\* load_district_shapefiles: a shapefile is missing or unreadable
LoadFails ==
    /\ Exit1("load")
    /\ UNCHANGED <<diag_source, diag_columns, punjab_columns, haryana_columns,
                   districts, districts_crs>>

\* load_district_shapefiles: both files read, then the two column checks
LoadRead(pcols, hcols, overlap, crs) ==
    /\ punjab_columns' = pcols
    /\ haryana_columns' = hcols
    /\ IF ~HasDistrictColumn(pcols)
       THEN /\ Exit1("column")
            /\ diag_source' = "Punjab"
            /\ diag_columns' = pcols
            /\ UNCHANGED <<districts, districts_crs>>
       ELSE IF ~HasDistrictColumn(hcols)
       THEN /\ Exit1("column")
            /\ diag_source' = "Haryana"
            /\ diag_columns' = hcols
            /\ UNCHANGED <<districts, districts_crs>>
       ELSE /\ Goto("process")
            /\ districts' = ConcatDistricts(ShapefileRows("Punjab", overlap),
                                            ShapefileRows("Haryana", overlap))
            /\ districts_crs' = crs
            /\ UNCHANGED <<diag_source, diag_columns>>

LoadDistricts ==
    /\ pc = "load"
    /\ Started({"load"})
    /\ \/ LoadFails
       \/ \E pcols \in ColumnSets, hcols \in ColumnSets,
             overlap \in BOOLEAN, crs \in DistrictCRSs :
             LoadRead(pcols, hcols, overlap, crs)
    /\ UNCHANGED <<warnings, points, points_crs, points_districts,
                   district_counts, daily_output, summary_output,
                   file_daily, file_summary>>

\* variant: no early return for an empty point file
NoPoints_m(pts) == FALSE

\* process_fire_counts: len(points) == 0
NoPoints(pts) == Len(pts) = 0

\* process_fire_counts: points.crs != districts.crs
CrsMismatch(pcrs, dcrs) == pcrs # dcrs

\* points.to_crs(districts.crs) raises when the points carry no CRS
\* ("Cannot transform naive geometries") or the target is None
ToCrsFails(pcrs, dcrs) == pcrs = NoCRS \/ dcrs = NoCRS

\* process_fire_counts: gpd.read_file(fire_shapefile) raises
ProcessReadFails ==
    /\ Exit1("process")
    /\ Started({"process"})
    /\ UNCHANGED <<warnings, points, points_crs, points_districts,
                   district_counts>>

\* process_fire_counts once the point file is read
\* (points.sort_values(by='ACQ_DATE') only reorders the rows, which neither
\* the join nor the grouping depends on; date values are kept as read)
ProcessRead(pts, crs) ==
    /\ points' = pts
    /\ points_crs' = crs
    /\ IF NoPoints(pts)
       THEN /\ warnings' = warnings \cup {"no_points"}
            /\ district_counts' = EmptyCounts
            /\ Started({"process", "read_points"})
            /\ Goto("json")
            /\ UNCHANGED points_districts
       ELSE IF CrsMismatch(crs, districts_crs) /\ ToCrsFails(crs, districts_crs)
       THEN /\ warnings' = warnings \cup {"crs_mismatch"}
            /\ Started({"process", "read_points"})
            /\ Exit1("process")
            /\ UNCHANGED <<points_districts, district_counts>>
       ELSE LET joined == sjoin(pts, districts)
            IN  /\ points_districts' = joined
                /\ warnings' = warnings
                      \cup (IF CrsMismatch(crs, districts_crs)
                            THEN {"crs_mismatch"} ELSE {})
                      \cup (IF Len(joined) = 0 THEN {"no_match"} ELSE {})
                /\ district_counts' = SortValues(GroupSize(joined))
                /\ Started({"process", "read_points", "sjoin"})
                /\ Goto("json")

ProcessFireCounts ==
    /\ pc = "process"
    /\ \/ ProcessReadFails
       \/ \E pts \in PointFiles, crs \in PointCRSs : ProcessRead(pts, crs)
    /\ UNCHANGED <<diag_source, diag_columns, punjab_columns, haryana_columns,
                   districts, districts_crs, daily_output, summary_output,
                   file_daily, file_summary>>

\* daily_output = create_json_output(district_counts); an exception while
\* the entries are built is caught by main's except clause
CreateJsonOutput ==
    /\ pc = "json"
    /\ Started({"json"})
    /\ \/ /\ Len(district_counts) > 0
          /\ Exit1("fatal")
          /\ UNCHANGED daily_output
       \/ /\ daily_output' = create_json_output(district_counts)
          /\ Goto("summary")
    /\ UNCHANGED <<diag_source, diag_columns, warnings, punjab_columns,
                   haryana_columns, districts, districts_crs, points,
                   points_crs, points_districts, district_counts,
                   summary_output, file_daily, file_summary>>

\* summary_output = create_summary_output(district_counts)
CreateSummaryOutput ==
    /\ pc = "summary"
    /\ Started({"summary"})
    /\ \E tie \in TieOrders :
          summary_output' = create_summary_output(district_counts, tie)
    /\ Goto("save_daily")
    /\ UNCHANGED <<diag_source, diag_columns, warnings, punjab_columns,
                   haryana_columns, districts, districts_crs, points,
                   points_crs, points_districts, district_counts,
                   daily_output, file_daily, file_summary>>

\* with open(OUTPUT_JSON, 'w') as f: json.dump(daily_output, f, indent=2)
SaveDaily ==
    /\ pc = "save_daily"
    /\ Started({"save_daily"})
    /\ \/ /\ Exit1("fatal")              \* open() raises
          /\ UNCHANGED file_daily
       \/ /\ Exit1("fatal")              \* json.dump raises
          /\ file_daily' = Partial
       \/ /\ file_daily' = daily_output
          /\ Goto("save_summary")
    /\ UNCHANGED <<diag_source, diag_columns, warnings, punjab_columns,
                   haryana_columns, districts, districts_crs, points,
                   points_crs, points_districts, district_counts,
                   daily_output, summary_output, file_summary>>

\* with open(SUMMARY_JSON, 'w') as f: json.dump(summary_output, f, indent=2),
\* then the final report and a normal return
SaveSummary ==
    /\ pc = "save_summary"
    /\ Started({"save_summary"})
    /\ \/ /\ Exit1("fatal")              \* open() raises
          /\ UNCHANGED file_summary
       \/ /\ Exit1("fatal")              \* json.dump raises
          /\ file_summary' = Partial
       \/ /\ file_summary' = summary_output
          /\ pc' = "done"
          /\ exit_status' = 0
          /\ UNCHANGED error
    /\ UNCHANGED <<diag_source, diag_columns, warnings, punjab_columns,
                   haryana_columns, districts, districts_crs, points,
                   points_crs, points_districts, district_counts,
                   daily_output, summary_output, file_daily>>

Next ==
    \/ MakeDirs
    \/ Download
    \/ LoadDistricts
    \/ ProcessFireCounts
    \/ CreateJsonOutput
    \/ CreateSummaryOutput
    \/ SaveDaily
    \/ SaveSummary

Spec == Init /\ [][Next]_vars

\* ------------------------------------------------------ checked properties
RECURSIVE ListSum(_, _)
\* sum of field values f[1] + ... + f[n] of a sequence of numbers
ListSum(f, n) == IF n = 0 THEN 0 ELSE f[n] + ListSum(f, n - 1)

FireCountSum(list) == ListSum([i \in DOMAIN list |-> list[i].fire_count], Len(list))

LaterStages == {"process", "read_points", "sjoin", "json", "summary",
                "save_daily", "save_summary"}

\* C1: all-or-nothing: when the run has ended, either it exited 0 and both
\* files hold this run's documents, or it exited non-zero and neither file
\* was written or modified.
C1_AllOrNothing ==
    pc = "done" =>
        \/ /\ exit_status = 0
           /\ daily_output.kind = "daily"
           /\ summary_output.kind = "summary"
           /\ file_daily = daily_output
           /\ file_summary = summary_output
        \/ /\ exit_status # 0
           /\ file_daily = Previous
           /\ file_summary = Previous

\* C2: once the two polygon attribute tables are read and the district-name
\* column is missing from either, the run has ended with a non-zero status
\* on the missing-column error, the message names a source that lacks the
\* column and lists exactly that source's columns, neither output file is
\* touched, and no later stage has started.
C2_MissingColumnFails ==
    (/\ punjab_columns # {}
     /\ haryana_columns # {}
     /\ (DISTRICT_COLUMN \notin punjab_columns
         \/ DISTRICT_COLUMN \notin haryana_columns)) =>
        /\ pc = "done"
        /\ exit_status # 0
        /\ error = "column"
        /\ \/ /\ diag_source = "Punjab"
              /\ DISTRICT_COLUMN \notin punjab_columns
              /\ diag_columns = punjab_columns
           \/ /\ diag_source = "Haryana"
              /\ DISTRICT_COLUMN \notin haryana_columns
              /\ diag_columns = haryana_columns
        /\ file_daily = Previous
        /\ file_summary = Previous
        /\ daily_output = NoDoc
        /\ summary_output = NoDoc
        /\ stages_run \cap LaterStages = {}

C2_Witness ==
    /\ pc = "done"
    /\ error = "column"
    /\ diag_source = "Haryana"
    /\ diag_columns = {"DISTRICT", "geometry"}
    /\ DISTRICT_COLUMN \in punjab_columns

\* C3: in every per-date entry of the daily document, combined_total is
\* punjab.total + haryana.total and each region's total is the sum of the
\* fire_count values of its districts list.
C3_DailyTotalsAddUp ==
    daily_output.kind = "daily" =>
        \A i \in DOMAIN daily_output.daily_data :
            LET e == daily_output.daily_data[i]
            IN  /\ e.combined_total = e.punjab.total + e.haryana.total
                /\ e.punjab.total = FireCountSum(e.punjab.districts)
                /\ e.haryana.total = FireCountSum(e.haryana.districts)

C3_Witness ==
    /\ daily_output.kind = "daily"
    /\ \E i \in DOMAIN daily_output.daily_data :
          LET e == daily_output.daily_data[i]
          IN  /\ e.punjab.total >= 2
              /\ e.haryana.total >= 1
              /\ \E j \in DOMAIN e.punjab.districts :
                    e.punjab.districts[j].fire_count >= 2

\* C4: the summary's total_fire_count is the sum of combined_total over the
\* entries of the daily document built from the same table, and both are 0
\* when the table is empty.
C4_TotalIsSumOfDaily ==
    (daily_output.kind = "daily" /\ summary_output.kind = "summary") =>
        /\ summary_output.total_fire_count =
              ListSum([i \in DOMAIN daily_output.daily_data |->
                          daily_output.daily_data[i].combined_total],
                      Len(daily_output.daily_data))
        /\ Len(district_counts) = 0 => summary_output.total_fire_count = 0

C4_Witness ==
    /\ daily_output.kind = "daily"
    /\ summary_output.kind = "summary"
    /\ Len(daily_output.daily_data) = 2
    /\ daily_output.daily_data[1].combined_total = 2
    /\ summary_output.total_fire_count = 3

TablePairs(t) == {<<t[i].state, t[i].dtname>> : i \in DOMAIN t}

\* whole-period sum of the counts of one (state, district) pair
PairTotal(t, pr) ==
    ListSum([i \in DOMAIN t |->
                IF t[i].state = pr[1] /\ t[i].dtname = pr[2]
                THEN t[i].fire_count ELSE 0],
            Len(t))

\* index of the first row of the table that belongs to the pair
FirstIndex(t, pr) ==
    CHOOSE i \in DOMAIN t :
        /\ t[i].state = pr[1] /\ t[i].dtname = pr[2]
        /\ \A j \in 1..(i - 1) : ~(t[j].state = pr[1] /\ t[j].dtname = pr[2])

TopPair(e) == <<e.state, e.district>>

\* C5: top_districts has exactly min(20, number of distinct pairs) entries
\* for distinct pairs of the table, each with the pair's whole-period sum,
\* in non-increasing order of total_fires, and no pair left out has a
\* larger total than any pair listed.
C5_TopDistricts ==
    summary_output.kind = "summary" =>
        LET top == summary_output.top_districts
            pairs == TablePairs(district_counts)
            listed == {TopPair(top[i]) : i \in DOMAIN top}
        IN  /\ Len(top) <= 20
            /\ Len(top) = IF Cardinality(pairs) < 20 THEN Cardinality(pairs) ELSE 20
            /\ Cardinality(listed) = Len(top)
            /\ \A i \in DOMAIN top :
                  /\ TopPair(top[i]) \in pairs
                  /\ top[i].total_fires = PairTotal(district_counts, TopPair(top[i]))
            /\ \A i \in DOMAIN top :
                  i < Len(top) => top[i].total_fires >= top[i + 1].total_fires
            /\ \A q \in pairs \ listed : \A i \in DOMAIN top :
                  PairTotal(district_counts, q) <= top[i].total_fires

C5_Witness ==
    /\ summary_output.kind = "summary"
    /\ Cardinality(TablePairs(district_counts)) > 20
    /\ Len(summary_output.top_districts) = 20
    /\ summary_output.top_districts[1].total_fires
          > summary_output.top_districts[20].total_fires

\* C6: pairs with equal whole-period totals appear in top_districts in the
\* order in which they are first encountered in the grouped-count table,
\* and the same rule decides which tied pair is kept at the cut-off.
C6_TiesFirstEncountered ==
    summary_output.kind = "summary" =>
        LET top == summary_output.top_districts
            pairs == TablePairs(district_counts)
            listed == {TopPair(top[i]) : i \in DOMAIN top}
        IN  /\ \A i \in DOMAIN top : \A j \in DOMAIN top :
                  (i < j /\ top[i].total_fires = top[j].total_fires) =>
                      FirstIndex(district_counts, TopPair(top[i]))
                          < FirstIndex(district_counts, TopPair(top[j]))
            /\ \A q \in pairs \ listed : \A i \in DOMAIN top :
                  PairTotal(district_counts, q) = top[i].total_fires =>
                      FirstIndex(district_counts, TopPair(top[i]))
                          < FirstIndex(district_counts, q)

\* C7: a point enclosed by more than one polygon is never silently counted
\* twice: after the spatial join either the fire_count values add up to at
\* most the number of input points, or the run has flagged a multiple match.
C7_NoSilentDoubleCount ==
    "sjoin" \in stages_run =>
        \/ FireCountSum(district_counts) <= Len(points)
        \/ "multiple_match" \in warnings

\* C8: when the point file is read and holds no point, or the join is done
\* and matches no point, processing does not fail, the table is empty, the
\* daily document has daily_data = [] and the summary document has total 0,
\* a null date range, no top districts and zero state totals; the run then
\* ends with status 0 and both files holding these documents, unless an
\* output file could not be written.
C8_ZeroMatchIsNotAnError ==
    (\/ ("read_points" \in stages_run /\ Len(points) = 0)
     \/ ("sjoin" \in stages_run /\ Len(points_districts) = 0)) =>
        /\ error # "process"
        /\ district_counts = <<>>
        /\ daily_output.kind = "daily" => daily_output.daily_data = <<>>
        /\ summary_output.kind = "summary" =>
              /\ summary_output.total_fire_count = 0
              /\ summary_output.date_range = [start |-> NoDate, end |-> NoDate]
              /\ summary_output.top_districts = <<>>
              /\ summary_output.state_totals = [punjab |-> 0, haryana |-> 0]
        /\ pc = "done" =>
              \/ /\ exit_status = 0
                 /\ file_daily.kind = "daily"
                 /\ file_daily = daily_output
                 /\ file_summary.kind = "summary"
                 /\ file_summary = summary_output
              \/ /\ exit_status # 0
                 /\ error = "fatal"
                 /\ "save_daily" \in stages_run

C8_Witness ==
    /\ pc = "done"
    /\ exit_status = 0
    /\ Len(points) = 2
    /\ "no_match" \in warnings
    /\ file_daily.kind = "daily"
    /\ file_summary.kind = "summary"
    /\ file_summary.total_fire_count = 0

\* C9: whenever the point collection or the polygon collection read by the
\* spatial stage has no CRS, the run ends with a non-zero status without
\* doing the spatial join and without writing an output file.
C9_UndefinedCrsFails ==
    ("read_points" \in stages_run
     /\ (points_crs = NoCRS \/ districts_crs = NoCRS)) =>
        /\ pc = "done"
        /\ exit_status # 0
        /\ "sjoin" \notin stages_run
        /\ file_daily = Previous
        /\ file_summary = Previous

NonIncreasing(list) ==
    \A i \in DOMAIN list :
        i < Len(list) => list[i].fire_count >= list[i + 1].fire_count

\* C10: the grouped-count table is ordered by ascending date, then
\* ascending state label, then descending fire_count; daily_data has one
\* entry per distinct date of the table in strictly ascending date order,
\* and each region's districts list is in non-increasing fire_count order.
C10_Ordering ==
    /\ \A i \in DOMAIN district_counts :
          i < Len(district_counts) =>
              LET a == district_counts[i]
                  b == district_counts[i + 1]
              IN  /\ a.ACQ_DATE <= b.ACQ_DATE
                  /\ a.ACQ_DATE = b.ACQ_DATE => StateOrd(a.state) <= StateOrd(b.state)
                  /\ (a.ACQ_DATE = b.ACQ_DATE /\ a.state = b.state) =>
                        a.fire_count >= b.fire_count
    /\ daily_output.kind = "daily" =>
          LET dd == daily_output.daily_data
          IN  /\ \A i \in DOMAIN dd : i < Len(dd) => dd[i].date < dd[i + 1].date
              /\ {dd[i].date : i \in DOMAIN dd}
                    = {district_counts[i].ACQ_DATE : i \in DOMAIN district_counts}
              /\ \A i \in DOMAIN dd :
                    /\ NonIncreasing(dd[i].punjab.districts)
                    /\ NonIncreasing(dd[i].haryana.districts)

C10_Witness ==
    /\ daily_output.kind = "daily"
    /\ Len(daily_output.daily_data) = 2
    /\ \E i \in DOMAIN daily_output.daily_data :
          LET l == daily_output.daily_data[i].punjab.districts
          IN  /\ Len(l) >= 2
              /\ l[1].district > l[2].district
              /\ l[1].fire_count > l[2].fire_count
    /\ \E i \in DOMAIN district_counts :
          /\ i < Len(district_counts)
          /\ district_counts[i].ACQ_DATE = district_counts[i + 1].ACQ_DATE
          /\ district_counts[i].state # district_counts[i + 1].state

====
